---- MODULE Spec2Model ----
(***************************************************************************)
(* Model of the data preprocessing library src/src/preprocessing.py.      *)
(*                                                                         *)
(* Python lists are mutable objects: they live in `heap`, and a caller     *)
(* holds references (indexes into `heap`).  The process-wide generator of  *)
(* the `random` module is the variable `rng`.  A library call is made by   *)
(* a thread; shuffle_list is modelled statement by statement (it reads and *)
(* writes `rng`), every other function touches only its arguments and its  *)
(* own result and is one step.                                             *)
(***************************************************************************)
EXTENDS Integers, Sequences, FiniteSets, TLC

\* Longest list a caller builds as input.
MaxLen == 2
\* Objects alive at once: the caller's input and the results it keeps.
MaxHeap == 3
\* Significand bits of the model's binary floating point (IEEE double: 53).
Precision == 4
\* Longest text a caller passes, in characters.
MaxText == 3

----------------------------------------------------------------------------
(* Python values.  Every value is a record of the same shape:              *)
(*   t  type name            n, d  number n/d (d > 0), or for a           *)
(*   s  characters of a str        not-a-number float d = 0 and n is the   *)
(*   l  items of a list            identity of the float object            *)

PyValue(t, n, d, s, l) == [t |-> t, n |-> n, d |-> d, s |-> s, l |-> l]
None == PyValue("NoneType", 0, 1, <<>>, <<>>)
PyStr(chars) == PyValue("str", 0, 1, chars, <<>>)
PyInt(i) == PyValue("int", i, 1, <<>>, <<>>)
PyBool(b) == PyValue("bool", IF b THEN 1 ELSE 0, 1, <<>>, <<>>)
PyNaN(id) == PyValue("float", id, 0, <<>>, <<>>)
\* float('inf') and float('-inf'): sign is 1 or -1
PyInf(sign) == PyValue("float", sign, 0, <<"inf">>, <<>>)
PyList(items) == PyValue("list", 0, 1, <<>>, items)

Abs(x) == IF x < 0 THEN -x ELSE x
Sign(x) == IF x < 0 THEN -1 ELSE IF x > 0 THEN 1 ELSE 0

RECURSIVE GCD(_, _)
GCD(a, b) == IF b = 0 THEN a ELSE GCD(b, a % b)

RECURSIVE Pow2(_)
Pow2(k) == IF k = 0 THEN 1 ELSE 2 * Pow2(k - 1)

\* A rational in lowest terms with a positive denominator, as <<n, d>>.
Rat(n, d) ==
    LET g == GCD(Abs(n), Abs(d))
    IN  IF n = 0 THEN <<0, 1>> ELSE <<Sign(d) * (n \div g), Abs(d) \div g>>

RatAdd(x, y) == Rat(x[1] * y[2] + y[1] * x[2], x[2] * y[2])
RatSub(x, y) == Rat(x[1] * y[2] - y[1] * x[2], x[2] * y[2])
RatMul(x, y) == Rat(x[1] * y[1], x[2] * y[2])
RatDiv(x, y) == Rat(x[1] * y[2], x[2] * y[1])
RatLess(x, y) == x[1] * y[2] < y[1] * x[2]
RatAbs(x) == <<Abs(x[1]), x[2]>>

PyFloat(n, d) == PyValue("float", Rat(n, d)[1], Rat(n, d)[2], <<>>, <<>>)

IsNumber(v) == v.t \in {"int", "bool", "float"} /\ v.d > 0 /\ v.s = <<>>
Q(v) == <<v.n, v.d>>

\* isinstance(v, float) and math.isnan(v)
isinstance_float(v) == v.t = "float"
isnan(v) == v.d = 0 /\ v.s = <<>>

\* The == operator of Python on the values of the model.
py_eq(a, b) ==
    IF IsNumber(a) /\ IsNumber(b) THEN a.n * b.d = b.n * a.d
    ELSE IF a.t = "str" /\ b.t = "str" THEN a.s = b.s
    ELSE IF a.t = "NoneType" /\ b.t = "NoneType" THEN TRUE
    ELSE IF a.t = "list" /\ b.t = "list" THEN a.l = b.l
    ELSE FALSE

\* The `is` operator: one object.  Two not-a-number floats are one object
\* when they carry the same identity.
py_is(a, b) == a = b

\* A comparison of keys by identity alone.
IdentityCompare(a, b) == py_is(a, b)

\* How dict keys and list items are compared: identity, then ==.
RichCompareBool(a, b) == py_is(a, b) \/ py_eq(a, b)

----------------------------------------------------------------------------
(* Floating point.  A float is a rational m * 2^e with |m| < 2^Precision;  *)
(* every float operation rounds its exact result to the nearest such      *)
(* number, ties to the even significand.  The exponent is unbounded: the   *)
(* model has rounding, and no overflow or underflow.                       *)

\* n/d (n, d > 0) scaled by powers of two into [2^(Precision-1), 2^Precision).
RECURSIVE Scale(_, _, _)
Scale(n, d, e) ==
    IF n < Pow2(Precision - 1) * d THEN Scale(2 * n, d, e - 1)
    ELSE IF n >= Pow2(Precision) * d THEN Scale(n, 2 * d, e + 1)
    ELSE <<n, d, e>>

RoundHalfEven(n, d) ==
    LET q == n \div d
        r == n % d
    IN  IF 2 * r < d THEN q
        ELSE IF 2 * r > d THEN q + 1
        ELSE IF q % 2 = 0 THEN q ELSE q + 1

\* The float nearest to the rational x.
Fl(x) ==
    IF x[1] = 0 THEN <<0, 1>>
    ELSE LET sc == Scale(Abs(x[1]), x[2], 0)
             m == RoundHalfEven(sc[1], sc[2])
             e == sc[3]
         IN  IF e >= 0 THEN Rat(Sign(x[1]) * m * Pow2(e), 1)
             ELSE Rat(Sign(x[1]) * m, Pow2(-e))

IsIntLike(v) == v.t \in {"int", "bool"}
\* float(v) of a number: an int converts to the nearest float.
to_float(v) == IF IsIntLike(v) THEN Fl(Q(v)) ELSE Q(v)
MkFloat(x) == PyFloat(x[1], x[2])

\* a - b, a + b, a * b, a / b on numbers: exact on two ints (except /),
\* a rounded float operation as soon as one operand is a float.
py_sub(a, b) ==
    IF IsIntLike(a) /\ IsIntLike(b) THEN PyInt(a.n - b.n)
    ELSE MkFloat(Fl(RatSub(to_float(a), to_float(b))))
py_add(a, b) ==
    IF IsIntLike(a) /\ IsIntLike(b) THEN PyInt(a.n + b.n)
    ELSE MkFloat(Fl(RatAdd(to_float(a), to_float(b))))
py_mul(a, b) ==
    IF IsIntLike(a) /\ IsIntLike(b) THEN PyInt(a.n * b.n)
    ELSE MkFloat(Fl(RatMul(to_float(a), to_float(b))))
py_truediv(a, b) ==
    IF IsIntLike(a) /\ IsIntLike(b) THEN MkFloat(Fl(RatDiv(Q(a), Q(b))))
    ELSE MkFloat(Fl(RatDiv(to_float(a), to_float(b))))
py_lt(a, b) == RatLess(Q(a), Q(b))
py_gt(a, b) == RatLess(Q(b), Q(a))

\* [x] * n
Repeat(x, n) == [k \in 1..n |-> x]

----------------------------------------------------------------------------
(* Data cleaning functions *)

\* The loop of remove_missing_values from element k on.
RECURSIVE remove_missing_loop(_, _, _)
remove_missing_loop(values, k, output) ==
    IF k > Len(values) THEN output
    ELSE LET v == values[k]
         IN  IF py_is(v, None) \/ py_eq(v, PyStr(<<>>))
               THEN remove_missing_loop(values, k + 1, output)
             ELSE IF isinstance_float(v) /\ isnan(v)
               THEN remove_missing_loop(values, k + 1, output)
             ELSE remove_missing_loop(values, k + 1, Append(output, v))

\* Truth value of a value: None, '', 0, 0.0 and False are false.
py_bool(v) ==
    IF v.t = "NoneType" THEN FALSE
    ELSE IF v.t = "str" THEN v.s # <<>>
    ELSE IF v.t = "list" THEN v.l # <<>>
    ELSE IF IsNumber(v) THEN v.n # 0
    ELSE TRUE

\* A remove_missing_values that drops what is false: `if not v: continue`.
RECURSIVE remove_falsy_loop(_, _, _)
remove_falsy_loop(values, k, output) ==
    IF k > Len(values) THEN output
    ELSE IF ~py_bool(values[k]) THEN remove_falsy_loop(values, k + 1, output)
    ELSE remove_falsy_loop(values, k + 1, Append(output, values[k]))
remove_falsy_values(values) == remove_falsy_loop(values, 1, <<>>)

remove_missing_values(values) == remove_missing_loop(values, 1, <<>>)

\* An is_missing that takes every false value for a missing one: `not v`.
is_falsy(v) == ~py_bool(v) \/ (isinstance_float(v) /\ isnan(v))

is_missing(v) ==
    \/ py_is(v, None)
    \/ py_eq(v, PyStr(<<>>))
    \/ (isinstance_float(v) /\ isnan(v))

RECURSIVE fill_missing_loop(_, _, _, _)
fill_missing_loop(values, fill_value, k, output) ==
    IF k > Len(values) THEN output
    ELSE IF is_missing(values[k])
      THEN fill_missing_loop(values, fill_value, k + 1, Append(output, fill_value))
    ELSE fill_missing_loop(values, fill_value, k + 1, Append(output, values[k]))

\* A fill_missing_values that replaces None alone.
fill_none_values(values, fill_value) ==
    [k \in 1..Len(values) |->
        IF py_is(values[k], None) THEN fill_value ELSE values[k]]

fill_missing_values(values, fill_value) ==
    fill_missing_loop(values, fill_value, 1, <<>>)

----------------------------------------------------------------------------
(* Data structure functions *)

\* dict.fromkeys(values): the keys of the dict in insertion order.  A value
\* equal to a key already there (identity, then ==) is not inserted again.
RECURSIVE dict_fromkeys(_, _, _)
dict_fromkeys(values, k, keys) ==
    IF k > Len(values) THEN keys
    ELSE IF \E j \in 1..Len(keys) : RichCompareBool(keys[j], values[k])
      THEN dict_fromkeys(values, k + 1, keys)
    ELSE dict_fromkeys(values, k + 1, Append(keys, values[k]))

remove_duplicates(values) == dict_fromkeys(values, 1, <<>>)

\* [item for sublist in nested_list for item in sublist]
RECURSIVE flatten_loop(_, _, _)
flatten_loop(nested_list, k, output) ==
    IF k > Len(nested_list) THEN output
    ELSE flatten_loop(nested_list, k + 1, output \o nested_list[k].l)

flatten_list(nested_list) == flatten_loop(nested_list, 1, <<>>)

----------------------------------------------------------------------------
(* Numerical processing functions *)

\* min(values) and max(values): the first least / greatest element.
RECURSIVE py_min_loop(_, _, _)
py_min_loop(values, k, m) ==
    IF k > Len(values) THEN m
    ELSE py_min_loop(values, k + 1, IF py_lt(values[k], m) THEN values[k] ELSE m)
py_min(values) == py_min_loop(values, 2, values[1])

RECURSIVE py_max_loop(_, _, _)
py_max_loop(values, k, m) ==
    IF k > Len(values) THEN m
    ELSE py_max_loop(values, k + 1, IF py_gt(values[k], m) THEN values[k] ELSE m)
py_max(values) == py_max_loop(values, 2, values[1])

\* A rescale that leaves out the offset: (v - min_val) * new_range / val_range
rescale_no_offset(v, min_val, val_range, new_min, new_range) ==
    py_truediv(py_mul(py_sub(v, min_val), new_range), val_range)

\* new_min + ((v - min_val) * new_range / val_range)
rescale(v, min_val, val_range, new_min, new_range) ==
    py_add(new_min, py_truediv(py_mul(py_sub(v, min_val), new_range), val_range))

\* A normalize_min_max without the zero-range case: it takes the midpoint
\* of an empty range, which is new_max for a single value.
normalize_midpoint(values, new_min, new_max) ==
    IF Len(values) = 0 THEN <<>> ELSE Repeat(new_max, Len(values))

normalize_min_max(values, new_min, new_max) ==
    IF Len(values) = 0 THEN <<>>
    ELSE LET min_val == py_min(values)
             max_val == py_max(values)
             val_range == py_sub(max_val, min_val)
         IN  IF py_eq(val_range, PyInt(0)) THEN Repeat(new_min, Len(values))
             ELSE LET new_range == py_sub(new_max, new_min)
                  IN  [k \in 1..Len(values) |->
                          rescale(values[k], min_val, val_range, new_min, new_range)]

\* A float known by its square: sign(n) * sqrt(|n| / d), kept unrounded.
PySqrt(x) ==
    IF x[1] = 0 THEN PyFloat(0, 1) ELSE PyValue("float", x[1], x[2], <<"sqrt">>, <<>>)
\* math.log(v) of a positive number, kept unrounded; log(1) is 0.0.
PyLog(v) ==
    IF v.n = v.d THEN PyFloat(0, 1) ELSE PyValue("float", v.n, v.d, <<"log">>, <<>>)

RECURSIVE RatSum(_, _)
RatSum(xs, k) == IF k > Len(xs) THEN <<0, 1>> ELSE RatAdd(xs[k], RatSum(xs, k + 1))

\* statistics.mean and statistics.stdev work on exact fractions.
statistics_mean(values) ==
    RatDiv(RatSum([k \in 1..Len(values) |-> Q(values[k])], 1), <<Len(values), 1>>)
statistics_variance(values) ==
    LET m == statistics_mean(values)
        sq == [k \in 1..Len(values) |->
                  RatMul(RatSub(Q(values[k]), m), RatSub(Q(values[k]), m))]
    IN  RatDiv(RatSum(sq, 1), <<Len(values) - 1, 1>>)
statistics_stdev(values) == PySqrt(statistics_variance(values))

\* (v - mean_val) / stdev_val for a stdev that is not zero
z_score(v, mean_val, stdev_val) ==
    LET dev == RatSub(Q(v), mean_val)
        sq == RatDiv(RatMul(dev, dev), <<stdev_val.n, stdev_val.d>>)
    IN  PySqrt(<<Sign(dev[1]) * sq[1], sq[2]>>)

standardize_z_score(values) ==
    IF Len(values) < 2 THEN Repeat(PyFloat(0, 1), Len(values))
    ELSE LET mean_val == statistics_mean(values)
             stdev_val == statistics_stdev(values)
         IN  IF py_eq(stdev_val, PyInt(0)) THEN Repeat(PyFloat(0, 1), Len(values))
             ELSE [k \in 1..Len(values) |-> z_score(values[k], mean_val, stdev_val)]

\* A clip_values that tests the upper bound first.
RECURSIVE clip_loop_max_first(_, _, _, _, _)
clip_loop_max_first(values, min_val, max_val, k, output) ==
    IF k > Len(values) THEN output
    ELSE LET v == values[k]
         IN  IF py_gt(v, max_val)
               THEN clip_loop_max_first(values, min_val, max_val, k + 1,
                                        Append(output, max_val))
             ELSE IF py_lt(v, min_val)
               THEN clip_loop_max_first(values, min_val, max_val, k + 1,
                                        Append(output, min_val))
             ELSE clip_loop_max_first(values, min_val, max_val, k + 1,
                                      Append(output, v))

RECURSIVE clip_loop(_, _, _, _, _)
clip_loop(values, min_val, max_val, k, output) ==
    IF k > Len(values) THEN output
    ELSE LET v == values[k]
         IN  IF py_lt(v, min_val)
               THEN clip_loop(values, min_val, max_val, k + 1, Append(output, min_val))
             ELSE IF py_gt(v, max_val)
               THEN clip_loop(values, min_val, max_val, k + 1, Append(output, max_val))
             ELSE clip_loop(values, min_val, max_val, k + 1, Append(output, v))

\* A clip_values that lost its elif branch: it clamps from below only.
RECURSIVE clip_below_loop(_, _, _, _)
clip_below_loop(values, min_val, k, output) ==
    IF k > Len(values) THEN output
    ELSE IF py_lt(values[k], min_val)
      THEN clip_below_loop(values, min_val, k + 1, Append(output, min_val))
    ELSE clip_below_loop(values, min_val, k + 1, Append(output, values[k]))
clip_below_only(values, min_val, max_val) == clip_below_loop(values, min_val, 1, <<>>)

clip_values(values, min_val, max_val) == clip_loop(values, min_val, max_val, 1, <<>>)

RECURSIVE log_loop(_, _, _)
log_loop(values, k, output) ==
    IF k > Len(values) THEN output
    ELSE IF py_gt(values[k], PyInt(0))
      THEN log_loop(values, k + 1, Append(output, PyLog(values[k])))
    ELSE log_loop(values, k + 1, output)

transform_log_scale(values) == log_loop(values, 1, <<>>)

----------------------------------------------------------------------------
(* float(v) and int(num), as convert_to_integers uses them.  A call gives  *)
(* [raised |-> the exception's name or "", value |-> the result].          *)

Returns(v) == [raised |-> "", value |-> v]
Raises(e) == [raised |-> e, value |-> None]

DigitChars == <<"0", "1", "2", "3", "4", "5", "6", "7", "8", "9">>
IsDigit(c) == \E i \in 1..10 : DigitChars[i] = c
DigitVal(c) == (CHOOSE i \in 1..10 : DigitChars[i] = c) - 1
IsSpace(c) == c \in {" ", "\t", "\n"}
UpperChars == <<"A", "B", "C", "D", "E", "F", "G", "H", "I", "J", "K", "L", "M",
                "N", "O", "P", "Q", "R", "S", "T", "U", "V", "W", "X", "Y", "Z">>
LowerChars == <<"a", "b", "c", "d", "e", "f", "g", "h", "i", "j", "k", "l", "m",
                "n", "o", "p", "q", "r", "s", "t", "u", "v", "w", "x", "y", "z">>
lower_char(c) ==
    IF \E i \in 1..26 : UpperChars[i] = c
      THEN LowerChars[CHOOSE i \in 1..26 : UpperChars[i] = c]
    ELSE c
\* str.lower()
lower(chars) == [k \in 1..Len(chars) |-> lower_char(chars[k])]

\* str.strip()
RECURSIVE lstrip(_)
lstrip(chars) ==
    IF chars # <<>> /\ IsSpace(chars[1]) THEN lstrip(Tail(chars)) ELSE chars
RECURSIVE rstrip(_)
rstrip(chars) ==
    IF chars # <<>> /\ IsSpace(chars[Len(chars)])
      THEN rstrip(SubSeq(chars, 1, Len(chars) - 1))
    ELSE chars
strip(chars) == rstrip(lstrip(chars))

RECURSIVE Pow10(_)
Pow10(k) == IF k = 0 THEN 1 ELSE 10 * Pow10(k - 1)

\* The digits of chars read as a decimal integer, a "." skipped.
RECURSIVE DigitsValue(_, _)
DigitsValue(chars, acc) ==
    IF chars = <<>> THEN acc
    ELSE IF chars[1] = "." THEN DigitsValue(Tail(chars), acc)
    ELSE DigitsValue(Tail(chars), 10 * acc + DigitVal(chars[1]))

\* Digits with at most one ".": "12", "2.5", "3.", ".5".  (The exponent
\* and underscore forms of float literals are outside the model's strings.)
IsDecimal(chars) ==
    /\ \A k \in 1..Len(chars) : IsDigit(chars[k]) \/ chars[k] = "."
    /\ \E k \in 1..Len(chars) : IsDigit(chars[k])
    /\ Cardinality({k \in 1..Len(chars) : chars[k] = "."}) <= 1

DecimalValue(chars) ==
    LET dot == {k \in 1..Len(chars) : chars[k] = "."}
        frac == IF dot = {} THEN 0 ELSE Len(chars) - (CHOOSE k \in dot : TRUE)
    IN  Rat(DigitsValue(chars, 0), Pow10(frac))

\* float(v) of a str, of a number, of anything else
float_from_string(chars) ==
    LET t == strip(chars)
        signed == t # <<>> /\ t[1] \in {"+", "-"}
        sign == IF t # <<>> /\ t[1] = "-" THEN -1 ELSE 1
        body == IF signed THEN Tail(t) ELSE t
    IN  IF lower(body) = <<"n", "a", "n">> THEN Returns(PyNaN(0))
        ELSE IF lower(body) \in {<<"i", "n", "f">>,
                                 <<"i", "n", "f", "i", "n", "i", "t", "y">>}
          THEN Returns(PyInf(sign))
        ELSE IF IsDecimal(body)
          THEN Returns(MkFloat(Fl(RatMul(<<sign, 1>>, DecimalValue(body)))))
        ELSE Raises("ValueError")

py_float(v) ==
    IF v.t = "str" THEN float_from_string(v.s)
    ELSE IF IsNumber(v) THEN Returns(MkFloat(to_float(v)))
    ELSE IF v.t = "float" THEN Returns(v)
    ELSE Raises("TypeError")

\* int(num) of a float: truncation toward zero
py_int(num) ==
    IF isnan(num) THEN Raises("ValueError")
    ELSE IF num.d = 0 THEN Raises("OverflowError")
    ELSE Returns(PyInt(Sign(num.n) * (Abs(num.n) \div num.d)))

RECURSIVE convert_loop(_, _, _)
convert_loop(values, k, output) ==
    IF k > Len(values) THEN Returns(output)
    ELSE LET f == py_float(values[k])
             i == py_int(f.value)
         IN  IF f.raised \in {"ValueError", "TypeError"}
               THEN convert_loop(values, k + 1, output)
             ELSE IF i.raised \in {"ValueError", "TypeError"}
               THEN convert_loop(values, k + 1, output)
             ELSE IF i.raised # "" THEN Raises(i.raised)
             ELSE convert_loop(values, k + 1, Append(output, i.value))

convert_to_integers(values) == convert_loop(values, 1, <<>>)

----------------------------------------------------------------------------
(* Text processing *)

\* str.split(): the maximal runs of characters that are not whitespace.
RECURSIVE split_loop(_, _, _, _)
split_loop(chars, k, word, words) ==
    IF k > Len(chars)
      THEN IF word = <<>> THEN words ELSE Append(words, word)
    ELSE IF IsSpace(chars[k])
      THEN split_loop(chars, k + 1, <<>>,
                      IF word = <<>> THEN words ELSE Append(words, word))
    ELSE split_loop(chars, k + 1, Append(word, chars[k]), words)
split(chars) == split_loop(chars, 1, <<>>, <<>>)

\* ' '.join(words)
RECURSIVE join(_)
join(words) ==
    IF words = <<>> THEN <<>>
    ELSE IF Len(words) = 1 THEN words[1]
    ELSE words[1] \o <<" ">> \o join(Tail(words))

\* w in stop_words_set: a set of str holds w when an item equals w.
set_contains(stop_words, w) == \E k \in 1..Len(stop_words) : stop_words[k] = w

RECURSIVE filter_words(_, _, _, _)
filter_words(words, stop_words, k, output) ==
    IF k > Len(words) THEN output
    ELSE IF ~set_contains(stop_words, words[k])
      THEN filter_words(words, stop_words, k + 1, Append(output, words[k]))
    ELSE filter_words(words, stop_words, k + 1, output)

remove_stop_words(text, stop_words) ==
    LET text_lower == lower(text)
        words == split(text_lower)
        filtered_words == filter_words(words, stop_words, 1, <<>>)
    IN  join(filtered_words)

----------------------------------------------------------------------------
(* The random module: one process-wide generator.  Its state is a word of  *)
(* RngBits bits; random.seed(k) sets the state from k alone, and each      *)
(* getrandbits call advances it and returns the top bits of the new state. *)

RngBits == 3
RngStates == 0..(Pow2(RngBits) - 1)

random_seed(seed) == (3 * seed.n + 1) % Pow2(RngBits)
next_state(state) == (5 * state + 3) % Pow2(RngBits)
getrandbits(state, k) == next_state(state) \div Pow2(RngBits - k)

RECURSIVE bit_length(_)
bit_length(n) == IF n = 0 THEN 0 ELSE 1 + bit_length(n \div 2)

\* x[i], x[j] = x[j], x[i]  (i, j count from 0 as in the code)
swap(x, i, j) == [x EXCEPT ![i + 1] = x[j + 1], ![j + 1] = x[i + 1]]

----------------------------------------------------------------------------
(* State *)

VARIABLES
    heap,    \* the list objects: heap[r] is the object with reference r
    rng,     \* state of the process-wide generator of the random module
    pc,      \* pc[t]: where thread t is inside shuffle_list, or "idle"
    frame,   \* frame[t]: the locals of thread t's shuffle_list call
    raised   \* raised[t]: the exception thread t's last call raised, or ""

vars == <<heap, rng, pc, frame, raised>>

Threads == {1, 2}
\* The thread a single-threaded program runs in.
MainThread == CHOOSE t \in Threads : \A u \in Threads : t <= u

\* A list object: its items and its declared type, and how it came to be:
\* the function that returned it, the reference and the items of that
\* call's list argument, and the call's other arguments.
Object(val, ty, op, arg, was, p1, p2) ==
    [val |-> val, ty |-> ty, op |-> op, arg |-> arg, was |-> was,
     p1 |-> p1, p2 |-> p2]
InputObject(input) == Object(input.val, input.ty, "input", 0, <<>>, None, None)

\* A function builds its result in a fresh list and returns it.
Return(h, val, ty, op, arg, p1, p2) ==
    Append(h, Object(val, ty, op, arg, h[arg].val, p1, p2))

NoFrame == [values |-> 0, seed |-> None, shuffled_values |-> 0, i |-> 0,
            was |-> <<>>, rng0 |-> 0]

\* The objects a caller holds: all but the copy a running shuffle_list
\* has not returned yet.
Returned(r) ==
    /\ r \in DOMAIN heap
    /\ \A t \in Threads : pc[t] = "idle" \/ frame[t].shuffled_values # r

Refs == {r \in DOMAIN heap : Returned(r)}

\* The caller is typed: it passes a function a list of the type the
\* function declares for its parameter.  The numerical functions get plain
\* numbers only (not the unrounded results of sqrt and log).
IsAnyList(obj) == obj.ty = "List[Any]"
IsNestedList(obj) == obj.ty = "List[List[Any]]"
IsNumberList(obj) ==
    obj.ty = "List[float]" /\ \A k \in 1..Len(obj.val) : IsNumber(obj.val[k])
IsStrList(obj) == obj.ty = "List[str]"

\* A call needs room for its result; a shuffle_list call that has not made
\* its copy yet has its room reserved.
CanCall(t) ==
    /\ pc[t] = "idle"
    /\ Len(heap) + Cardinality({u \in Threads : pc[u] = "copy"}) < MaxHeap

----------------------------------------------------------------------------
(* What callers pass *)

SeqsUpTo(S, n) == UNION {[1..k -> S] : k \in 0..n}

\* Elements of a heterogeneous list: the three missing markers (two
\* distinct not-a-number objects), and values that are not missing.
AnyValues ==
    {None, PyStr(<<>>), PyNaN(1), PyNaN(2),
     PyInt(0), PyBool(FALSE), PyStr(<<" ">>), PyStr(<<"a">>)}
NumValues == {PyInt(0), PyInt(1), PyInt(3), PyFloat(5, 2)}
StrValues ==
    {None, PyStr(<<"2", ".", "5">>), PyStr(<<"-", "2", ".", "5">>),
     PyStr(<<" ", "3">>), PyStr(<<"a">>), PyStr(<<"n", "a", "n">>),
     PyStr(<<"i", "n", "f">>)}
InnerLists ==
    {PyList(<<>>), PyList(<<PyInt(0)>>), PyList(<<PyInt(1), PyStr(<<"a">>)>>)}

FillValues == {PyInt(0), None, PyStr(<<"a">>)}
Seeds == {None, PyInt(0), PyInt(1)}
\* <<new_min, new_max>> and <<min_val, max_val>>
Ranges ==
    {<<PyFloat(0, 1), PyFloat(1, 1)>>, <<PyFloat(0, 1), PyFloat(7, 8)>>,
     <<PyFloat(-1, 1), PyFloat(7, 8)>>, <<PyFloat(1, 1), PyFloat(0, 1)>>}
\* Bounds in order, with list values below, between, on and above them,
\* and bounds out of order.
ClipRanges ==
    {<<PyInt(1), PyInt(3)>>, <<PyInt(1), PyFloat(5, 2)>>, <<PyInt(3), PyInt(1)>>}

\* Texts of lower and upper case letters, whitespace and punctuation, and
\* the stop-word lists given with them (each a list of str).
TextChars == {"a", "A", "b", " ", "."}
Texts == SeqsUpTo(TextChars, MaxText)
StopWordLists ==
    {<<>>, <<<<"a">>>>, <<<<"A">>>>, <<<<"b">>, <<"a", ".">>>>}
IsText(obj) == obj.ty = "str"

Typed(ty, lists) == {[ty |-> ty, val |-> val] : val \in lists}

\* Every list of each type, up to MaxLen items.
AllInputs ==
    Typed("List[Any]", SeqsUpTo(AnyValues, MaxLen))
        \cup Typed("List[float]", SeqsUpTo(NumValues, MaxLen))
        \cup Typed("List[str]", SeqsUpTo(StrValues, MaxLen))
        \cup Typed("List[List[Any]]", SeqsUpTo(InnerLists, MaxLen))

\* The lists of the program that shuffles: the lists of a missing and a
\* present value, and one list of MaxLen items of each other type.
ProgramInputs ==
    Typed("List[Any]", SeqsUpTo({None, PyStr(<<"a">>)}, MaxLen))
        \cup Typed("List[float]", {[k \in 1..MaxLen |-> PyInt(2 * k - 1)]})
        \cup Typed("List[str]", {[k \in 1..MaxLen |-> PyStr(<<"2", ".", "5">>)]})
        \cup Typed("List[List[Any]]",
                   {[k \in 1..MaxLen |-> PyList(<<PyInt(1), PyStr(<<"a">>)>>)]})

\* The lists threads shuffle at the same time.
ThreadInputs == Typed("List[Any]", SeqsUpTo({None, PyStr(<<"a">>)}, MaxLen))

----------------------------------------------------------------------------
(* The library calls of thread t.  Each but shuffle_list is one step.      *)

Idle == UNCHANGED <<rng, pc, frame>>

CallRemoveMissing(t) ==
    /\ CanCall(t)
    /\ \E a \in Refs :
         /\ IsAnyList(heap[a])
         /\ heap' = Return(heap, remove_missing_values(heap[a].val),
                           "List[Any]", "remove_missing_values", a, None, None)
    /\ raised' = [raised EXCEPT ![t] = ""]
    /\ Idle

CallFillMissing(t) ==
    /\ CanCall(t)
    /\ \E a \in Refs, fill_value \in FillValues :
         /\ IsAnyList(heap[a])
         /\ heap' = Return(heap, fill_missing_values(heap[a].val, fill_value),
                           "List[Any]", "fill_missing_values", a, fill_value, None)
    /\ raised' = [raised EXCEPT ![t] = ""]
    /\ Idle

CallRemoveDuplicates(t) ==
    /\ CanCall(t)
    /\ \E a \in Refs :
         /\ IsAnyList(heap[a])
         /\ heap' = Return(heap, remove_duplicates(heap[a].val),
                           "List[Any]", "remove_duplicates", a, None, None)
    /\ raised' = [raised EXCEPT ![t] = ""]
    /\ Idle

CallFlatten(t) ==
    /\ CanCall(t)
    /\ \E a \in Refs :
         /\ IsNestedList(heap[a])
         /\ heap' = Return(heap, flatten_list(heap[a].val),
                           "List[Any]", "flatten_list", a, None, None)
    /\ raised' = [raised EXCEPT ![t] = ""]
    /\ Idle

CallNormalize(t) ==
    /\ CanCall(t)
    /\ \E a \in Refs, range \in Ranges :
         /\ IsNumberList(heap[a])
         /\ heap' = Return(heap, normalize_min_max(heap[a].val, range[1], range[2]),
                           "List[float]", "normalize_min_max", a, range[1], range[2])
    /\ raised' = [raised EXCEPT ![t] = ""]
    /\ Idle

CallStandardize(t) ==
    /\ CanCall(t)
    /\ \E a \in Refs :
         /\ IsNumberList(heap[a])
         /\ heap' = Return(heap, standardize_z_score(heap[a].val),
                           "List[float]", "standardize_z_score", a, None, None)
    /\ raised' = [raised EXCEPT ![t] = ""]
    /\ Idle

CallClip(t) ==
    /\ CanCall(t)
    /\ \E a \in Refs, range \in ClipRanges :
         /\ IsNumberList(heap[a])
         /\ heap' = Return(heap, clip_values(heap[a].val, range[1], range[2]),
                           "List[float]", "clip_values", a, range[1], range[2])
    /\ raised' = [raised EXCEPT ![t] = ""]
    /\ Idle

\* An exception int() raises that the except clause does not name leaves
\* the function: the caller gets the exception and no list.
CallConvert(t) ==
    /\ CanCall(t)
    /\ \E a \in Refs :
         /\ IsStrList(heap[a])
         /\ LET r == convert_to_integers(heap[a].val)
            IN  /\ heap' = IF r.raised = ""
                             THEN Return(heap, r.value, "List[int]", "convert_to_integers",
                                         a, None, None)
                           ELSE heap
                /\ raised' = [raised EXCEPT ![t] = r.raised]
    /\ Idle

CallLog(t) ==
    /\ CanCall(t)
    /\ \E a \in Refs :
         /\ IsNumberList(heap[a])
         /\ heap' = Return(heap, transform_log_scale(heap[a].val),
                           "List[float]", "transform_log_scale", a, None, None)
    /\ raised' = [raised EXCEPT ![t] = ""]
    /\ Idle

\* A text is held as an object whose items are its characters.
CallRemoveStopWords(t) ==
    /\ CanCall(t)
    /\ \E a \in Refs, stop_words \in StopWordLists :
         /\ IsText(heap[a])
         /\ heap' = Return(heap, remove_stop_words(heap[a].val, stop_words),
                           "str", "remove_stop_words", a,
                           PyList([k \in 1..Len(stop_words) |-> PyStr(stop_words[k])]),
                           None)
    /\ raised' = [raised EXCEPT ![t] = ""]
    /\ Idle

----------------------------------------------------------------------------
(* shuffle_list, statement by statement *)

\* A shuffle_list that never seeds the generator.
seed_generator_forgotten(state, seed) == state

\* if seed is not None: random.seed(seed)
seed_generator(state, seed) ==
    IF seed # None THEN random_seed(seed) ELSE state

\* A shuffle_list that shuffles its argument itself: no copy.
list_alias(h, ref) == [heap |-> h, ref |-> ref]

\* values.copy(): a new list object with the items of h[ref]
list_copy(h, ref) ==
    [heap |-> Append(h, Object(h[ref].val, h[ref].ty, "list.copy", ref, h[ref].val,
                                None, None)),
     ref |-> Len(h) + 1]

\* The call, and lines 105-106.
ShuffleSeed(t) ==
    /\ CanCall(t)
    /\ \E a \in Refs, seed \in Seeds :
         /\ IsAnyList(heap[a])
         /\ frame' = [frame EXCEPT ![t] =
                         [values |-> a, seed |-> seed, shuffled_values |-> 0,
                          i |-> 0, was |-> heap[a].val, rng0 |-> rng]]
         /\ rng' = seed_generator(rng, seed)
    /\ pc' = [pc EXCEPT ![t] = "copy"]
    /\ UNCHANGED <<heap, raised>>

\* Line 108; random.shuffle(x) then starts at i = len(x) - 1.
ShuffleCopy(t) ==
    /\ pc[t] = "copy"
    /\ LET c == list_copy(heap, frame[t].values)
       IN  /\ heap' = c.heap
           /\ frame' = [frame EXCEPT ![t].shuffled_values = c.ref,
                                     ![t].i = Len(c.heap[c.ref].val) - 1]
    /\ pc' = [pc EXCEPT ![t] = "shuffle"]
    /\ UNCHANGED <<rng, raised>>

\* Line 109, one getrandbits call of random.shuffle:
\*   for i in reversed(range(1, len(x))):
\*       j = randbelow(i + 1)      # r = getrandbits(k) until r < i + 1
\*       x[i], x[j] = x[j], x[i]
ShuffleDraw(t) ==
    /\ pc[t] = "shuffle"
    /\ frame[t].i >= 1
    /\ LET i == frame[t].i
           x == frame[t].shuffled_values
           r == getrandbits(rng, bit_length(i + 1))
       IN  /\ rng' = next_state(rng)
           /\ IF r < i + 1
                THEN /\ heap' = [heap EXCEPT ![x].val = swap(@, i, r)]
                     /\ frame' = [frame EXCEPT ![t].i = i - 1]
              ELSE UNCHANGED <<heap, frame>>
    /\ UNCHANGED <<pc, raised>>

\* Line 110.
ShuffleReturn(t) ==
    /\ pc[t] = "shuffle"
    /\ frame[t].i < 1
    /\ heap' = [heap EXCEPT ![frame[t].shuffled_values] =
                   Object(@.val, "List[Any]", "shuffle_list", frame[t].values,
                          frame[t].was, frame[t].seed, None)]
    /\ pc' = [pc EXCEPT ![t] = "idle"]
    /\ raised' = [raised EXCEPT ![t] = ""]
    /\ UNCHANGED <<rng, frame>>

----------------------------------------------------------------------------
(* Specifications *)

Start(inputs, states) ==
    /\ \E input \in inputs : heap = <<InputObject(input)>>
    /\ rng \in states
    /\ pc = [t \in Threads |-> "idle"]
    /\ frame = [t \in Threads |-> NoFrame]
    /\ raised = [t \in Threads |-> ""]

\* A single-threaded program using the whole library.
Init == Start(ProgramInputs, RngStates)

Next ==
    \E t \in {MainThread} :
        \/ CallRemoveMissing(t)
        \/ CallFillMissing(t)
        \/ CallRemoveDuplicates(t)
        \/ CallFlatten(t)
        \/ CallNormalize(t)
        \/ CallStandardize(t)
        \/ CallClip(t)
        \/ CallConvert(t)
        \/ CallLog(t)
        \/ ShuffleSeed(t)
        \/ ShuffleCopy(t)
        \/ ShuffleDraw(t)
        \/ ShuffleReturn(t)

Spec == Init /\ [][Next]_vars

\* The functions that use no randomness, on every input up to MaxLen.
InitPure == Start(AllInputs, {0})

NextPure ==
    \E t \in {MainThread} :
        \/ CallRemoveMissing(t)
        \/ CallFillMissing(t)
        \/ CallRemoveDuplicates(t)
        \/ CallFlatten(t)
        \/ CallNormalize(t)
        \/ CallStandardize(t)
        \/ CallClip(t)
        \/ CallConvert(t)
        \/ CallLog(t)

SpecPure == InitPure /\ [][NextPure]_vars

\* Threads that call shuffle_list at the same time.
InitThreads == Start(ThreadInputs, RngStates)

NextThreads ==
    \E t \in Threads :
        \/ ShuffleSeed(t)
        \/ ShuffleCopy(t)
        \/ ShuffleDraw(t)
        \/ ShuffleReturn(t)

SpecThreads == InitThreads /\ [][NextThreads]_vars

\* A program that removes stop-words from texts of up to MaxText characters.
InitText == Start(Typed("str", Texts), {0})

NextText == \E t \in {MainThread} : CallRemoveStopWords(t)

SpecText == InitText /\ [][NextText]_vars

----------------------------------------------------------------------------
(* shuffle_list and the process-wide generator (C1 - C4) *)

\* What random.shuffle does to x from index i down when no other call
\* touches the generator in between.
RECURSIVE fisher_yates(_, _, _)
fisher_yates(x, i, state) ==
    IF i < 1 THEN x
    ELSE LET r == getrandbits(state, bit_length(i + 1))
         IN  IF r < i + 1 THEN fisher_yates(swap(x, i, r), i - 1, next_state(state))
             ELSE fisher_yates(x, i, next_state(state))

\* The permutation of a seeded shuffle_list call that runs alone.
ShuffleAlone(values, seed) ==
    fisher_yates(values, Len(values) - 1, random_seed(seed))

SeededShuffles ==
    {r \in Refs : heap[r].op = "shuffle_list" /\ heap[r].p1 # None}

\* C1: shuffle_list(s, seed=k) returns the same permutation at every call,
\* whatever calls were made before it or between two such calls: two
\* results for the same list and seed are equal, and each is the
\* permutation the call gives when it is the only call ever made.
C1_SeededShuffleRepeats ==
    /\ \A r1, r2 \in SeededShuffles :
           (heap[r1].was = heap[r2].was /\ heap[r1].p1 = heap[r2].p1)
               => heap[r1].val = heap[r2].val
    /\ \A r \in SeededShuffles : heap[r].val = ShuffleAlone(heap[r].was, heap[r].p1)

\* Two calls with one seed on the program's input, which they permuted.
C1_Witness ==
    \E r1, r2 \in SeededShuffles :
        /\ r1 < r2
        /\ heap[r1].arg = 1 /\ heap[r2].arg = 1
        /\ heap[r1].p1 = heap[r2].p1
        /\ heap[r1].val # heap[r1].was

\* C2: under every interleaving of threads that call shuffle_list with a
\* seed at the same time, each call returns the permutation it returns
\* when it runs alone with that list and seed.
C2_ConcurrentShuffleAsAlone ==
    (\A t \in Threads : frame[t].values # 0 /\ frame[t].seed # None)
        => \A t \in Threads :
               (pc[t] = "idle" /\ frame[t].shuffled_values \in SeededShuffles)
                   => heap[frame[t].shuffled_values].val
                          = ShuffleAlone(frame[t].was, frame[t].seed)

\* C3: a seeded shuffle_list call leaves no state behind: when it has
\* returned, the process-wide generator is in the state it had at the call.
C3_SeededShuffleLeavesGenerator ==
    (/\ pc[MainThread] = "idle"
     /\ frame[MainThread].shuffled_values \in SeededShuffles)
        => rng = frame[MainThread].rng0

\* C4: no call mutates its input, and the result is a separate list: the
\* list argument of every call made so far (of a shuffle_list call still
\* running too) holds the items it held at the call, and is not the list
\* the call returned or is working on.
C4_InputNeverMutated ==
    /\ \A r \in DOMAIN heap :
           heap[r].arg # 0 =>
               /\ heap[r].arg # r
               /\ heap[heap[r].arg].val = heap[r].was
    /\ \A t \in Threads :
           pc[t] # "idle" =>
               /\ heap[frame[t].values].val = frame[t].was
               /\ frame[t].shuffled_values # frame[t].values

\* shuffle_list returned a list in another order than its argument's.
C4_Witness ==
    \E r \in Refs :
        /\ heap[r].op = "shuffle_list"
        /\ heap[r].val # heap[r].was
        /\ heap[heap[r].arg].val = heap[r].was

----------------------------------------------------------------------------
(* Missing values (C5 - C7) *)

\* A missing value: the absent-marker, the empty string, a not-a-number float.
MissingMarker(v) ==
    \/ v.t = "NoneType"
    \/ (v.t = "str" /\ Len(v.s) = 0)
    \/ (v.t = "float" /\ v.d = 0 /\ v.s = <<>>)
IsPresent(v) == ~MissingMarker(v)

Calls(op) == {r \in Refs : heap[r].op = op}

\* C5: fill_missing_values(s, v) has len(s) elements; element i is v when
\* s[i] is missing and s[i] otherwise, whatever v is.
C5_FillMissingByPosition ==
    \A r \in Calls("fill_missing_values") :
        /\ Len(heap[r].val) = Len(heap[r].was)
        /\ \A i \in 1..Len(heap[r].was) :
               heap[r].val[i] = IF MissingMarker(heap[r].was[i]) THEN heap[r].p1
                                ELSE heap[r].was[i]

\* A list with a missing and a present element was filled with None.
C5_Witness ==
    \E r \in Calls("fill_missing_values") :
        /\ heap[r].p1 = None
        /\ \E i, j \in 1..Len(heap[r].was) :
               MissingMarker(heap[r].was[i]) /\ heap[r].was[j] = PyInt(0)

\* C6: remove_missing_values(s) is exactly the elements of s that are not
\* missing, in their order; 0, False and " " are kept.
C6_RemoveMissingExact ==
    \A r \in Calls("remove_missing_values") :
        /\ heap[r].val = SelectSeq(heap[r].was, IsPresent)
        /\ \A i \in 1..Len(heap[r].was) :
               heap[r].was[i] \in {PyInt(0), PyBool(FALSE), PyStr(<<" ">>)}
                   => \E j \in 1..Len(heap[r].val) : heap[r].val[j] = heap[r].was[i]

\* A missing element was removed next to a kept 0, False or " ".
C6_Witness ==
    \E r \in Calls("remove_missing_values") :
        /\ Len(heap[r].val) < Len(heap[r].was)
        /\ \E j \in 1..Len(heap[r].val) :
               heap[r].val[j] \in {PyInt(0), PyBool(FALSE), PyStr(<<" ">>)}

\* The calls remove_missing_values(fill_missing_values(s, X)), X not missing:
\* <<r1, r2>> with r1 the list fill returned and r2 the list remove returned.
FillThenRemove ==
    {c \in Calls("fill_missing_values") \X Calls("remove_missing_values") :
        heap[c[2]].arg = c[1] /\ IsPresent(heap[c[1]].p1)}

\* C7 as stated: the composition removes exactly the positions of s that
\* held a missing value (the result is s without them).
C7_RemovesMissingPositions ==
    \A c \in FillThenRemove :
        heap[c[2]].val = SelectSeq(heap[c[1]].was, IsPresent)

\* C7 amended: the composition removes no position: the result has len(s)
\* elements, X at the positions that were missing in s and s[i] elsewhere.
C7_RemovesNothing ==
    \A c \in FillThenRemove :
        /\ Len(heap[c[2]].val) = Len(heap[c[1]].was)
        /\ \A i \in 1..Len(heap[c[1]].was) :
               heap[c[2]].val[i] = IF MissingMarker(heap[c[1]].was[i])
                                     THEN heap[c[1]].p1
                                   ELSE heap[c[1]].was[i]

\* The composition ran on a list with a missing element.
C7_Witness ==
    \E c \in FillThenRemove :
        \E i \in 1..Len(heap[c[1]].was) : MissingMarker(heap[c[1]].was[i])

----------------------------------------------------------------------------
(* Duplicates (C8) *)

\* Native equality of list members: one object, or equal by ==, which
\* compares numbers by value across int, bool and float.
SameValue(a, b) ==
    \/ a = b
    \/ (/\ a.t \in {"int", "bool", "float"} /\ b.t \in {"int", "bool", "float"}
        /\ a.d > 0 /\ b.d > 0 /\ a.s = <<>> /\ b.s = <<>>
        /\ a.n * b.d = b.n * a.d)

FirstOccurrence(seq, i) == \A j \in 1..(i - 1) : ~SameValue(seq[j], seq[i])

\* The elements of seq at the positions in keep, in order.
RECURSIVE KeepAt(_, _)
KeepAt(seq, keep) ==
    IF seq = <<>> THEN <<>>
    ELSE LET front == KeepAt(SubSeq(seq, 1, Len(seq) - 1), keep)
         IN  IF Len(seq) \in keep THEN Append(front, seq[Len(seq)]) ELSE front

\* C8: remove_duplicates returns the first occurrence of every value, in
\* order, each value once under native equality; applied to its own result
\* it returns an equal list.
C8_FirstOccurrencesOnce ==
    \A r \in Calls("remove_duplicates") :
        /\ heap[r].val =
               KeepAt(heap[r].was,
                      {i \in 1..Len(heap[r].was) : FirstOccurrence(heap[r].was, i)})
        /\ \A i, j \in 1..Len(heap[r].val) :
               i # j => ~SameValue(heap[r].val[i], heap[r].val[j])
        /\ heap[heap[r].arg].op = "remove_duplicates" => heap[r].val = heap[r].was

\* remove_duplicates ran on its own result, after it had dropped a False
\* that equals an earlier 0 (or a 0 that equals an earlier False).
C8_Witness ==
    \E r \in Calls("remove_duplicates") :
        /\ heap[heap[r].arg].op = "remove_duplicates"
        /\ Len(heap[r].was) < Len(heap[heap[r].arg].was)
        /\ \E i, j \in 1..Len(heap[heap[r].arg].was) :
               /\ heap[heap[r].arg].was[i] = PyInt(0)
               /\ heap[heap[r].arg].was[j] = PyBool(FALSE)

----------------------------------------------------------------------------
(* Rescaling (C9, C10) *)

AllEqual(seq) == \A i, j \in 1..Len(seq) : Q(seq[i]) = Q(seq[j])
Least(seq) ==
    CHOOSE x \in {Q(seq[i]) : i \in 1..Len(seq)} :
        \A i \in 1..Len(seq) : ~RatLess(Q(seq[i]), x)
Greatest(seq) ==
    CHOOSE x \in {Q(seq[i]) : i \in 1..Len(seq)} :
        \A i \in 1..Len(seq) : ~RatLess(x, Q(seq[i]))
RatMax(x, y) == IF RatLess(x, y) THEN y ELSE x

\* new_min + (v - min) * (new_max - new_min) / (max - min) in the reals
Linear(seq, v, new_min, new_max) ==
    RatAdd(Q(new_min),
           RatDiv(RatMul(RatSub(Q(v), Least(seq)), RatSub(Q(new_max), Q(new_min))),
                  RatSub(Greatest(seq), Least(seq))))

\* The normalize_min_max calls on a list whose values are not all equal.
Rescalings ==
    {r \in Calls("normalize_min_max") : heap[r].was # <<>> /\ ~AllEqual(heap[r].was)}

RoundingBound(new_min, new_max) ==
    RatMul(<<14, Pow2(Precision)>>, RatMax(RatAbs(Q(new_min)), RatAbs(Q(new_max))))

C10_DegenerateFallbacks ==
    /\ \A r \in Calls("normalize_min_max") :
           /\ heap[r].was = <<>> => heap[r].val = <<>>
           /\ (heap[r].was # <<>> /\ AllEqual(heap[r].was))
                  => heap[r].val = [i \in 1..Len(heap[r].was) |-> heap[r].p1]
    /\ \A r \in Calls("standardize_z_score") :
           (Len(heap[r].was) < 2 \/ AllEqual(heap[r].was))
               => heap[r].val = [i \in 1..Len(heap[r].was) |-> PyFloat(0, 1)]

\* Both functions were called on a list of two or more equal values.
C10_Witness ==
    \E r1 \in Calls("normalize_min_max"), r2 \in Calls("standardize_z_score") :
        /\ heap[r1].arg = 1 /\ heap[r2].arg = 1
        /\ Len(heap[1].val) >= 2
        /\ AllEqual(heap[1].val)

----------------------------------------------------------------------------
(* clip_values *)

Below(v, bound) == RatLess(Q(v), Q(bound))
InOrder(r) == ~Below(heap[r].p2, heap[r].p1)

\* C11: for min_val <= max_val, clip_values keeps length and order; each
\* result element lies in [min_val, max_val]; an element below min_val
\* becomes min_val, one above max_val becomes max_val, one in range is
\* returned unchanged; clipping a clipped list again changes nothing.
C11_ClipClamps ==
    \A r \in Calls("clip_values") :
        InOrder(r) =>
            /\ Len(heap[r].val) = Len(heap[r].was)
            /\ \A i \in 1..Len(heap[r].was) :
                   LET v == heap[r].was[i]
                       w == heap[r].val[i]
                   IN  /\ ~Below(w, heap[r].p1) /\ ~Below(heap[r].p2, w)
                       /\ Below(v, heap[r].p1) => w = heap[r].p1
                       /\ Below(heap[r].p2, v) => w = heap[r].p2
                       /\ (~Below(v, heap[r].p1) /\ ~Below(heap[r].p2, v)) => w = v
            /\ (/\ heap[heap[r].arg].op = "clip_values"
                /\ heap[heap[r].arg].p1 = heap[r].p1
                /\ heap[heap[r].arg].p2 = heap[r].p2)
                   => heap[r].val = heap[r].was

\* A list with a value below and a value above the bounds was clipped, and
\* the result was clipped again with the same bounds.
C11_Witness ==
    \E r1, r2 \in Calls("clip_values") :
        /\ InOrder(r1)
        /\ \E i, j \in 1..Len(heap[r1].was) :
               /\ Below(heap[r1].was[i], heap[r1].p1)
               /\ Below(heap[r1].p2, heap[r1].was[j])
        /\ heap[r2].arg = r1
        /\ heap[r2].p1 = heap[r1].p1 /\ heap[r2].p2 = heap[r1].p2

\* C14 as stated: with min_val > max_val every value clips to min_val: the
\* result is min_val repeated len(nums) times.
C14_AllClipToMin ==
    \A r \in Calls("clip_values") :
        ~InOrder(r) => heap[r].val = [i \in 1..Len(heap[r].was) |-> heap[r].p1]

\* C14 amended: with min_val > max_val the result has the input's length;
\* a value below min_val becomes min_val and every other value (one that
\* is min_val or more) becomes max_val.
C14_ClipToMinOrMax ==
    \A r \in Calls("clip_values") :
        ~InOrder(r) =>
            /\ Len(heap[r].val) = Len(heap[r].was)
            /\ \A i \in 1..Len(heap[r].was) :
                   heap[r].val[i] = IF Below(heap[r].was[i], heap[r].p1)
                                      THEN heap[r].p1
                                    ELSE heap[r].p2

\* Bounds out of order were given with a list holding a value below
\* min_val and a value that is not below it.
C14_Witness ==
    \E r \in Calls("clip_values") :
        /\ ~InOrder(r)
        /\ \E i, j \in 1..Len(heap[r].was) :
               /\ Below(heap[r].was[i], heap[r].p1)
               /\ ~Below(heap[r].was[j], heap[r].p1)

----------------------------------------------------------------------------
(* convert_to_integers *)

\* The elements that parse as a floating-point number, and the integer
\* nearest to zero-ward of a finite one: n with |n| <= |x| < |n| + 1 and
\* the sign of x.
ParsesAsNumber(v) == py_float(v).raised = "" /\ ~isnan(py_float(v).value)
IsFinite(v) == IsNumber(py_float(v).value)
TruncatedTowardZero(v) ==
    LET x == Q(py_float(v).value)
        n == CHOOSE m \in 0..Abs(x[1]) :
                 /\ ~RatLess(RatAbs(x), <<m, 1>>)
                 /\ RatLess(RatAbs(x), <<m + 1, 1>>)
    IN  PyInt(Sign(x[1]) * n)

RECURSIVE Truncations(_)
Truncations(seq) ==
    IF seq = <<>> THEN <<>>
    ELSE IF ParsesAsNumber(seq[1]) /\ IsFinite(seq[1])
      THEN <<TruncatedTowardZero(seq[1])>> \o Truncations(Tail(seq))
    ELSE Truncations(Tail(seq))

\* C12: convert_to_integers returns, for every list, the truncations toward
\* zero of the elements that parse as a number, in order, the elements that
\* do not parse contributing nothing: every call returns a list, of as many
\* items as elements parse.
C12_ConvertTruncatesInOrder ==
    /\ \A t \in Threads : raised[t] = ""
    /\ \A r \in Calls("convert_to_integers") :
           /\ heap[r].val = Truncations(heap[r].was)
           /\ Len(heap[r].val) =
                  Cardinality({i \in 1..Len(heap[r].was) :
                                  ParsesAsNumber(heap[r].was[i])})

\* C15: convert_to_integers never raises: a call on a list of strings and
\* None, strings spelling not-a-number or infinity included, returns.
C15_ConvertNeverRaises ==
    \A t \in Threads : raised[t] \notin {"OverflowError", "ValueError", "TypeError"}

----------------------------------------------------------------------------
(* remove_stop_words *)

\* The whitespace-separated words of a text by position: a word starts
\* where a character that is not whitespace follows whitespace or nothing,
\* and runs up to the next whitespace.
WordStart(chars, i) ==
    ~IsSpace(chars[i]) /\ (i = 1 \/ IsSpace(chars[i - 1]))
WordAt(chars, i) ==
    LET j == CHOOSE e \in i..Len(chars) :
                 /\ \A k \in i..e : ~IsSpace(chars[k])
                 /\ (e = Len(chars) \/ IsSpace(chars[e + 1]))
    IN  SubSeq(chars, i, j)
EqualIgnoringCase(a, b) == lower(a) = lower(b)
IsStopWord(w, stop_words) ==
    \E k \in 1..Len(stop_words) : EqualIgnoringCase(w, stop_words[k].s)

RECURSIVE SurvivingWords(_, _, _)
SurvivingWords(chars, stop_words, i) ==
    IF i > Len(chars) THEN <<>>
    ELSE IF WordStart(chars, i) /\ ~IsStopWord(WordAt(chars, i), stop_words)
      THEN <<lower(WordAt(chars, i))>> \o SurvivingWords(chars, stop_words, i + 1)
    ELSE SurvivingWords(chars, stop_words, i + 1)

RECURSIVE JoinedBySpaces(_)
JoinedBySpaces(words) ==
    IF words = <<>> THEN <<>>
    ELSE IF Tail(words) = <<>> THEN Head(words)
    ELSE Head(words) \o <<" ">> \o JoinedBySpaces(Tail(words))

\* C13: remove_stop_words drops a whitespace-separated word of the text
\* exactly when it equals a supplied stop-word ignoring letter case,
\* whatever the case of the text and of the stop-words, and returns the
\* surviving words lowercased, in order, joined by single spaces,
\* punctuation attached to a word being part of it.
C13_StopWordsIgnoreCase ==
    \A r \in Calls("remove_stop_words") :
        heap[r].val = JoinedBySpaces(SurvivingWords(heap[r].was, heap[r].p1.l, 1))

====
